---- MODULE Spec2Model ----
(***************************************************************************)
(* StationNormals (src/StationNormals.py): the line-by-line parse of a     *)
(* 1981-2010 climate normals station file into meta and normals.           *)
(*                                                                         *)
(* A string is a sequence of one-character strings; a line is the sequence *)
(* of its whitespace-separated tokens, i.e. re.split(r'\s+', line) of the  *)
(* stripped line (the empty line is the one-token line << <<>> >>).  The   *)
(* regular expressions of loadfromfile are evaluated on the characters.    *)
(*                                                                         *)
(* file holds the lines of the file where a specification fixes them before   *)
(* the parse (SpecFile); the other specifications draw each line when it   *)
(* is read, so that every file of at most MaxLines lines is parsed, and    *)
(* leave file empty.                                                         *)
(***************************************************************************)
EXTENDS Integers, Sequences, FiniteSets, TLC

VARIABLES meta, normals, type, frequency, variable, line, n, status, err,
          arg, array, calls, file

vars == <<meta, normals, type, frequency, variable, line, n, status, err,
          arg, array, calls, file>>

parseVars == <<meta, normals, type, frequency, variable, line, n, status, err>>
trimVars == <<arg, array, calls>>

(***************************************************************************)
(* Bounds of the model.                                                    *)
(***************************************************************************)
MaxLines == 6
MaxTrimLen == 5
MaxCalls == 2

(***************************************************************************)
(* Characters and strings.                                                 *)
(***************************************************************************)
Upper == {"A","B","C","D","E","F","G","H","I","J","K","L","M",
          "N","O","P","Q","R","S","T","U","V","W","X","Y","Z"}
Lower == {"a","b","c","d","e","f","g","h","i","j","k","l","m",
          "n","o","p","q","r","s","t","u","v","w","x","y","z"}
Digit == {"0","1","2","3","4","5","6","7","8","9"}
WordChar == Upper \cup Lower \cup Digit \cup {"_"}

None == <<"None">>

DigitVal(c) ==
  CASE c = "0" -> 0 [] c = "1" -> 1 [] c = "2" -> 2 [] c = "3" -> 3
    [] c = "4" -> 4 [] c = "5" -> 5 [] c = "6" -> 6 [] c = "7" -> 7
    [] c = "8" -> 8 [] c = "9" -> 9

RECURSIVE Join(_)
Join(tokens) ==
  IF Len(tokens) = 0 THEN <<>>
  ELSE IF Len(tokens) = 1 THEN tokens[1]
  ELSE tokens[1] \o <<" ">> \o Join(Tail(tokens))

RECURSIVE strip(_)
strip(s) ==
  IF Len(s) > 0 /\ s[1] = " " THEN strip(Tail(s))
  ELSE IF Len(s) > 0 /\ s[Len(s)] = " " THEN strip(SubSeq(s, 1, Len(s) - 1))
  ELSE s

(***************************************************************************)
(* Static helpers of the class.                                            *)
(***************************************************************************)
months == << <<"J","A","N">>, <<"F","E","B">>, <<"M","A","R">>, <<"A","P","R">>,
             <<"M","A","Y">>, <<"J","U","N">>, <<"J","U","L">>, <<"A","U","G">>,
             <<"S","E","P">>, <<"O","C","T">>, <<"N","O","V">>, <<"D","E","C">> >>

InMonths(tok) == \E i \in 1..Len(months) : months[i] = tok

\* mutant: an if where the while should be, at most one value is popped
trim_from_end_once(a, value) ==
  IF Len(a) > 0 /\ a[Len(a)] = value THEN SubSeq(a, 1, Len(a) - 1) ELSE a

\* mutant: the last value is popped before the first test
RECURSIVE trim_tail(_, _)
trim_tail(a, value) ==
  IF Len(a) > 0 /\ a[Len(a)] = value
  THEN trim_tail(SubSeq(a, 1, Len(a) - 1), value)
  ELSE a

trim_from_end_pop_first(a, value) ==
  IF Len(a) = 0 THEN a ELSE trim_tail(SubSeq(a, 1, Len(a) - 1), value)

\* mutant: the last value is compared without its flag
RECURSIVE trim_from_end_flagless(_, _)
trim_from_end_flagless(a, value) ==
  IF /\ Len(a) > 0
     /\ \/ a[Len(a)] = value
        \/ /\ Len(a[Len(a)]) > 0
           /\ a[Len(a)][Len(a[Len(a)])] \in Upper
           /\ SubSeq(a[Len(a)], 1, Len(a[Len(a)]) - 1) = value
  THEN trim_from_end_flagless(SubSeq(a, 1, Len(a) - 1), value)
  ELSE a

RECURSIVE trim_from_end(_, _)
trim_from_end(a, value) ==
  IF Len(a) > 0 /\ a[Len(a)] = value
  THEN trim_from_end(SubSeq(a, 1, Len(a) - 1), value)
  ELSE a

\* mutant: the index counts the months from 1
month_index_from_one(month) ==
  IF \E i \in 1..Len(months) : months[i] = month
  THEN CHOOSE i \in 1..Len(months) : months[i] = month
  ELSE -1

month_index(month) ==
  IF \E i \in 0..(Len(months) - 1) : months[i + 1] = month
  THEN CHOOSE i \in 0..(Len(months) - 1) :
         /\ months[i + 1] = month
         /\ \A j \in 0..(i - 1) : months[j + 1] # month
  ELSE -1

re_sub_flag(val) ==
  IF Len(val) > 0 /\ val[Len(val)] \in Upper
  THEN SubSeq(val, 1, Len(val) - 1)
  ELSE val

IntBody(s) == IF Len(s) > 0 /\ s[1] \in {"+", "-"} THEN Tail(s) ELSE s

int_ok(s) == Len(IntBody(s)) > 0 /\ \A i \in 1..Len(IntBody(s)) : IntBody(s)[i] \in Digit

RECURSIVE DigitsVal(_)
DigitsVal(d) ==
  IF Len(d) = 0 THEN 0
  ELSE 10 * DigitsVal(SubSeq(d, 1, Len(d) - 1)) + DigitVal(d[Len(d)])

int(s) == IF Len(s) > 0 /\ s[1] = "-" THEN 0 - DigitsVal(IntBody(s)) ELSE DigitsVal(IntBody(s))

transform_raises(values) == \E i \in 1..Len(values) : ~int_ok(re_sub_flag(values[i]))

\* mutant: the values are scaled to units
transform_data_scaled(t, values) ==
  [i \in 1..Len(values) |-> int(re_sub_flag(values[i])) \div 10]

\* mutant: the values come out last first
transform_data_reversed(t, values) ==
  [i \in 1..Len(values) |-> int(re_sub_flag(values[Len(values) + 1 - i]))]

transform_data(t, values) == [i \in 1..Len(values) |-> int(re_sub_flag(values[i]))]

(***************************************************************************)
(* Dictionaries.                                                           *)
(***************************************************************************)
EmptyDict == [k \in {} |-> {}]

Put(d, k, v) == [x \in (DOMAIN d) \cup {k} |-> IF x = k THEN v ELSE d[x]]

SlotCount == 12

\* mutant: the variable is registered with an empty list
EmptySlotsNone == <<>>

EmptySlots == [i \in 1..SlotCount |-> <<>>]

(***************************************************************************)
(* The three regular expressions of loadfromfile.                          *)
(***************************************************************************)
Colons(s) == {i \in 1..Len(s) : s[i] = ":"}

MetaMatch(l) ==
  \E s \in {Join(l)} :
    /\ Len(s) > 0
    /\ s[1] \in Upper \cup Lower
    /\ Cardinality(Colons(s)) = 1
    /\ s[Len(s)] # ":"

MetaKey(l) ==
  LET s == Join(l)
      p == CHOOSE i \in Colons(s) : TRUE
  IN strip(SubSeq(s, 1, p - 1))

MetaVal(l) ==
  LET s == Join(l)
      p == CHOOSE i \in Colons(s) : TRUE
  IN strip(SubSeq(s, p + 1, Len(s)))

NormalsWord == <<"N","o","r","m","a","l","s">>

TypeMatch(l) == Len(l) >= 2 /\ l[Len(l)] = NormalsWord

TypeGroup(l) == strip(Join(SubSeq(l, 1, Len(l) - 1)))

FrequencyEnds(t) ==
  {k \in 4..Len(t) : /\ t[1] \in Upper
                     /\ t[k - 1] = "l"
                     /\ t[k] = "y"
                     /\ (k = Len(t) \/ t[k + 1] \notin WordChar)}

FrequencyMatch(l) == FrequencyEnds(l[1]) # {}

FrequencyGroup(l) ==
  LET ends == FrequencyEnds(l[1])
      k == CHOOSE e \in ends : \A f \in ends : f <= e
  IN SubSeq(l[1], 1, k)

(***************************************************************************)
(* Input lines of the model.  Value tokens are written from their numbers, *)
(* a completeness flag on the odd positions, so that every position of a   *)
(* row holds a different value.                                            *)
(***************************************************************************)
Sentinel == <<"-","8","8","8","8">>

DigitChar(d) ==
  CASE d = 0 -> "0" [] d = 1 -> "1" [] d = 2 -> "2" [] d = 3 -> "3"
    [] d = 4 -> "4" [] d = 5 -> "5" [] d = 6 -> "6" [] d = 7 -> "7"
    [] d = 8 -> "8" [] d = 9 -> "9"

RECURSIVE Numeral(_)
Numeral(k) == IF k < 10 THEN <<DigitChar(k)>> ELSE Numeral(k \div 10) \o <<DigitChar(k % 10)>>

ValueToken(k, flagged) == IF flagged THEN Numeral(k) \o <<"S">> ELSE Numeral(k)

\* count value tokens base+1 .. base+count; the positions in holes and the
\* last nSent positions hold the sentinel
ValueTokens(count, base, nSent, holes, flags) ==
  [i \in 1..count |->
     IF i > count - nSent \/ i \in holes THEN Sentinel
     ELSE ValueToken(base + i, flags /\ i % 2 = 1)]

AnnounceColumns == 33
MonthColumns == 32
MonthlyColumns == 13

Daily == <<"D","a","i","l","y">>
Monthly == <<"M","o","n","t","h","l","y">>

JAN == months[1]
FEB == months[2]
MAR == months[3]
TempType == <<"T","e","m","p">>
PrcpType == <<"P","r","c","p">>
DlyTmax == <<"d","l","y","-","t","m","a","x">>
DlyTmin == <<"d","l","y","-","t","m","i","n">>
MlyTmax == <<"m","l","y","-","t","m","a","x">>

DayCount == MonthColumns - 1
MonthCount == MonthlyColumns - 1

MetaLineIn == << <<"S","t">>, <<"N","a","m","e",":","E","X">> >>
TempLineIn == <<TempType, NormalsWord>>
PrcpLineIn == <<PrcpType, NormalsWord>>
DailyLineIn == <<Daily>>
MonthlyLineIn == <<Monthly>>
AnnounceJanIn == <<DlyTmax, JAN>> \o ValueTokens(DayCount, 630, 0, {}, TRUE)
AnnounceFebIn == <<DlyTmin, FEB>> \o ValueTokens(DayCount, 400, 3, {}, TRUE)
FebRowIn == <<FEB>> \o ValueTokens(DayCount, 670, 2, {2}, TRUE)
JanRowIn == <<JAN>> \o ValueTokens(DayCount, 700, 0, {}, FALSE)
NoMonthRowIn == << <<"X","X","X">> >> \o ValueTokens(DayCount, 800, 0, {}, TRUE)
BadRowIn == <<MAR, <<"1","x">> >> \o ValueTokens(DayCount - 1, 900, 0, {}, TRUE)
MonthlyRowIn == <<MlyTmax>> \o ValueTokens(MonthCount, 650, 0, {}, FALSE)
MonthlySentinelRowIn == <<MlyTmax>> \o ValueTokens(MonthCount, 500, 2, {3}, TRUE)
BlankIn == << <<>> >>

Lines == {MetaLineIn, TempLineIn, PrcpLineIn, DailyLineIn, MonthlyLineIn,
          AnnounceJanIn, AnnounceFebIn, FebRowIn, JanRowIn, NoMonthRowIn,
          BadRowIn, MonthlyRowIn, MonthlySentinelRowIn, BlankIn}

\* lines of more than one shape: metadata and frequency; metadata, category
\* and frequency (and the key of MetaOnlyIn again); category and frequency
MetaOnlyIn == << <<"O","n","l","y",":","E","X">> >>
MetaAgainIn == << <<"O","n","l","y",":","E","Y">>, NormalsWord >>
MonthlyNormalsIn == <<Monthly, NormalsWord>>

HeaderLines == {MetaLineIn, MetaOnlyIn, MetaAgainIn, TempLineIn, MonthlyNormalsIn,
                DailyLineIn, AnnounceJanIn, BlankIn}

\* rows that end in a flagged sentinel, and a monthly row with a bad token
FlaggedSentinel == Sentinel \o <<"S">>
FlaggedEndRowIn ==
  <<MAR>> \o ValueTokens(DayCount - 2, 300, 0, {}, TRUE) \o <<Sentinel, FlaggedSentinel>>
MonthlyFlaggedRowIn ==
  <<MlyTmax>> \o ValueTokens(MonthCount - 3, 200, 0, {}, TRUE)
              \o <<Sentinel, FlaggedSentinel, Sentinel>>
MonthlyBadRowIn ==
  <<MlyTmax>> \o ValueTokens(MonthCount - 1, 100, 0, {}, TRUE) \o << <<"7","S","S">> >>

RowLines == {TempLineIn, DailyLineIn, MonthlyLineIn, AnnounceJanIn, FebRowIn,
             FlaggedEndRowIn, BadRowIn, MonthlySentinelRowIn, MonthlyFlaggedRowIn,
             MonthlyBadRowIn}

\* the lines of the files that are fixed before the parse
FileLines == {TempLineIn, DailyLineIn, AnnounceJanIn, BadRowIn}

(***************************************************************************)
(* __init__ and loadfromfile: one action per branch of the loop body.      *)
(* A raised exception ends the parse: status "error", err the exception.   *)
(***************************************************************************)
InitParse ==
  /\ meta = EmptyDict
  /\ normals = EmptyDict
  /\ type = None
  /\ frequency = None
  /\ variable = None
  /\ line = None
  /\ n = 0
  /\ status = "running"
  /\ err = "none"

Init ==
  /\ InitParse
  /\ arg = <<>>
  /\ array = <<>>
  /\ calls = 0
  /\ file = <<>>

\* mutant: the loop does not advance, the same line is read again
ReadAgain(l) ==
  /\ status = "running"
  /\ n < MaxLines
  /\ line' = l
  /\ n' = n
  /\ UNCHANGED trimVars
  /\ UNCHANGED file

\* for line in [x.strip() for x in f]
Read(l) ==
  /\ status = "running"
  /\ n < MaxLines
  /\ line' = l
  /\ n' = n + 1
  /\ UNCHANGED trimVars
  /\ UNCHANGED file

\* mutant: the exception is swallowed and the loop goes on
RaiseSwallowed(e) == UNCHANGED <<status, err>>

Raise(e) == status' = "error" /\ err' = e

NoRaise == UNCHANGED <<status, err>>

\* mutant: the first value of a key is kept
MetaLineKeepsFirst(l) ==
  /\ Read(l)
  /\ MetaMatch(l)
  /\ meta' = IF MetaKey(l) \in DOMAIN meta THEN meta ELSE Put(meta, MetaKey(l), MetaVal(l))
  /\ NoRaise
  /\ UNCHANGED <<normals, type, frequency, variable>>

MetaLine(l) ==
  /\ Read(l)
  /\ MetaMatch(l)
  /\ meta' = Put(meta, MetaKey(l), MetaVal(l))
  /\ NoRaise
  /\ UNCHANGED <<normals, type, frequency, variable>>

\* mutant: the type header is tested before the metadata line
\* mutant: a type header empties the type it names
TypeLineResets(l) ==
  /\ Read(l)
  /\ ~MetaMatch(l)
  /\ TypeMatch(l)
  /\ type' = TypeGroup(l)
  /\ normals' = Put(normals, TypeGroup(l), EmptyDict)
  /\ NoRaise
  /\ UNCHANGED <<meta, frequency, variable>>

TypeLineFirst(l) ==
  /\ Read(l)
  /\ TypeMatch(l)
  /\ type' = TypeGroup(l)
  /\ normals' = IF TypeGroup(l) \notin DOMAIN normals
                THEN Put(normals, TypeGroup(l), EmptyDict)
                ELSE normals
  /\ NoRaise
  /\ UNCHANGED <<meta, frequency, variable>>

TypeLine(l) ==
  /\ Read(l)
  /\ ~MetaMatch(l)
  /\ TypeMatch(l)
  /\ type' = TypeGroup(l)
  /\ normals' = IF TypeGroup(l) \notin DOMAIN normals
                THEN Put(normals, TypeGroup(l), EmptyDict)
                ELSE normals
  /\ NoRaise
  /\ UNCHANGED <<meta, frequency, variable>>

\* mutant: the frequency header outside any type is skipped instead of raising
FrequencyLineSkips(l) ==
  /\ Read(l)
  /\ ~MetaMatch(l)
  /\ ~TypeMatch(l)
  /\ FrequencyMatch(l)
  /\ frequency' = FrequencyGroup(l)
  /\ NoRaise
  /\ normals' = IF type = None THEN normals
                ELSE IF FrequencyGroup(l) \notin DOMAIN normals[type]
                THEN [normals EXCEPT ![type] = Put(@, FrequencyGroup(l), EmptyDict)]
                ELSE normals
  /\ UNCHANGED <<meta, type, variable>>

FrequencyLine(l) ==
  /\ Read(l)
  /\ ~MetaMatch(l)
  /\ ~TypeMatch(l)
  /\ FrequencyMatch(l)
  /\ frequency' = FrequencyGroup(l)
  /\ IF type = None
     THEN Raise("Exception: new frequency not in any normals type") /\ UNCHANGED normals
     ELSE /\ NoRaise
          /\ normals' = IF FrequencyGroup(l) \notin DOMAIN normals[type]
                        THEN [normals EXCEPT ![type] = Put(@, FrequencyGroup(l), EmptyDict)]
                        ELSE normals
  /\ UNCHANGED <<meta, type, variable>>

DataLine(l) == ~MetaMatch(l) /\ ~TypeMatch(l) /\ ~FrequencyMatch(l)

\* if type == None: continue
NoTypeLine(l) ==
  /\ Read(l)
  /\ DataLine(l)
  /\ type = None
  /\ NoRaise
  /\ UNCHANGED <<meta, normals, type, frequency, variable>>

\* mutant: an else where "if frequency == 'Monthly'" should be
OtherFrequencyLineElse(l) ==
  /\ Read(l)
  /\ DataLine(l)
  /\ type # None
  /\ frequency # Daily
  /\ frequency # Monthly
  /\ IF Len(l) = MonthlyColumns
     THEN Raise("KeyError") /\ variable' = l[1]
     ELSE NoRaise /\ variable' = variable
  /\ UNCHANGED <<meta, normals, type, frequency>>

\* neither "if frequency == 'Daily'" nor "if frequency == 'Monthly'" is taken
OtherFrequencyLine(l) ==
  /\ Read(l)
  /\ DataLine(l)
  /\ type # None
  /\ frequency # Daily
  /\ frequency # Monthly
  /\ NoRaise
  /\ UNCHANGED <<meta, normals, type, frequency, variable>>

(***************************************************************************)
(* Data rows.  The right-hand side of an assignment is evaluated before    *)
(* its target, so a bad token raises ValueError before a missing key       *)
(* raises KeyError.                                                        *)
(***************************************************************************)
\* if (len(columns) == 33) and (columns[1] in StationNormals.months)
daily_announce(l) == Len(l) = AnnounceColumns /\ InMonths(l[2])

\* columns after "variable = columns.pop(0)", when that is executed
daily_columns(l) == IF daily_announce(l) THEN Tail(l) ELSE l

\* mutant: the second test looks at the column count alone
daily_month_row_any(l) == Len(daily_columns(l)) = MonthColumns

\* mutant: the second test is an elif of the first
daily_month_row_elif(l) ==
  /\ ~daily_announce(l)
  /\ Len(l) = MonthColumns
  /\ InMonths(l[1])

\* if (len(columns) == 32) and (columns[0] in StationNormals.months)
daily_month_row(l) ==
  /\ Len(daily_columns(l)) = MonthColumns
  /\ InMonths(daily_columns(l)[1])

\* mutant: a row whose target is missing is skipped without an exception
missing_key_skipped(nm, v) == FALSE

\* self.normals[type][frequency][variable] raises KeyError
missing_key(nm, v) ==
  \/ frequency \notin DOMAIN nm[type]
  \/ v \notin DOMAIN nm[type][frequency]

DailyLine(l) ==
  /\ Read(l)
  /\ DataLine(l)
  /\ type # None
  /\ frequency = Daily
  /\ LET ann == daily_announce(l)
         columns == daily_columns(l)
         v == IF ann THEN l[1] ELSE variable
         annKeyError == ann /\ frequency \notin DOMAIN normals[type]
         reg == IF ann /\ ~annKeyError /\ v \notin DOMAIN normals[type][frequency]
                THEN [normals EXCEPT ![type][frequency] = Put(@, v, EmptySlots)]
                ELSE normals
         i == month_index(columns[1])
         values == trim_from_end(Tail(columns), Sentinel)
     IN /\ variable' = v
        /\ IF annKeyError
             THEN Raise("KeyError") /\ normals' = normals
           ELSE IF ~daily_month_row(l)
             THEN NoRaise /\ normals' = reg
           ELSE IF i < 0 \/ i >= 12
             THEN Raise("Exception: unknown month") /\ normals' = reg
           ELSE IF transform_raises(values)
             THEN Raise("ValueError") /\ normals' = reg
           ELSE IF missing_key(reg, v)
             THEN Raise("KeyError") /\ normals' = reg
           ELSE /\ NoRaise
                /\ normals' = [reg EXCEPT ![type][frequency][v][i + 1] =
                                            transform_data(type, values)]
  /\ UNCHANGED <<meta, type, frequency>>

\* if len(columns) == 13
monthly_row(l) == Len(l) = MonthlyColumns

\* mutant: the monthly values are not trimmed
monthly_values_untrimmed(l) == Tail(l)

\* StationNormals.trim_from_end(columns, '-8888') after columns.pop(0)
monthly_values(l) == trim_from_end(Tail(l), Sentinel)

MonthlyLine(l) ==
  /\ Read(l)
  /\ DataLine(l)
  /\ type # None
  /\ frequency = Monthly
  /\ LET v == IF monthly_row(l) THEN l[1] ELSE variable
         values == monthly_values(l)
     IN /\ variable' = v
        /\ IF ~monthly_row(l)
             THEN NoRaise /\ normals' = normals
           ELSE IF transform_raises(values)
             THEN Raise("ValueError") /\ normals' = normals
           ELSE IF frequency \notin DOMAIN normals[type]
             THEN Raise("KeyError") /\ normals' = normals
           ELSE /\ NoRaise
                /\ normals' = [normals EXCEPT ![type][frequency] =
                                 Put(@, v, transform_data(type, values))]
  /\ UNCHANGED <<meta, type, frequency>>

\* f.close(): the file is exhausted
Close ==
  /\ status = "running"
  /\ status' = "done"
  /\ UNCHANGED <<meta, normals, type, frequency, variable, line, n, err>>
  /\ UNCHANGED trimVars
  /\ UNCHANGED file

Next ==
  \/ \E l \in Lines : MetaLine(l)
  \/ \E l \in Lines : TypeLine(l)
  \/ \E l \in Lines : FrequencyLine(l)
  \/ \E l \in Lines : NoTypeLine(l)
  \/ \E l \in Lines : OtherFrequencyLine(l)
  \/ \E l \in Lines : DailyLine(l)
  \/ \E l \in Lines : MonthlyLine(l)
  \/ Close

Spec == Init /\ [][Next]_vars

(***************************************************************************)
(* The same loop over files of header lines of more than one shape, and    *)
(* over files of rows with flagged sentinels and bad tokens.               *)
(***************************************************************************)
NextHeaders ==
  \/ \E l \in HeaderLines : MetaLine(l)
  \/ \E l \in HeaderLines : TypeLine(l)
  \/ \E l \in HeaderLines : FrequencyLine(l)
  \/ \E l \in HeaderLines : NoTypeLine(l)
  \/ \E l \in HeaderLines : OtherFrequencyLine(l)
  \/ \E l \in HeaderLines : DailyLine(l)
  \/ Close

SpecHeaders == Init /\ [][NextHeaders]_vars

NextRows ==
  \/ \E l \in RowLines : TypeLine(l)
  \/ \E l \in RowLines : FrequencyLine(l)
  \/ \E l \in RowLines : NoTypeLine(l)
  \/ \E l \in RowLines : OtherFrequencyLine(l)
  \/ \E l \in RowLines : DailyLine(l)
  \/ \E l \in RowLines : MonthlyLine(l)
  \/ Close

SpecRows == Init /\ [][NextRows]_vars

(***************************************************************************)
(* The loop over a file whose lines are fixed before the parse: line n + 1 *)
(* of the file is read next, the file is closed after its last line.  The  *)
(* loop body is sequential code that is not blocked, so the next step of   *)
(* the parse is taken whenever there is one.                               *)
(***************************************************************************)
MaxFile == 4

Files == UNION {[1..m -> FileLines] : m \in 0..MaxFile}

InitFile ==
  /\ InitParse
  /\ arg = <<>>
  /\ array = <<>>
  /\ calls = 0
  /\ file \in Files

\* the next line of f
NextOfFile(l) == n < Len(file) /\ l = file[n + 1]

EndOfFile == n = Len(file)

NextFile ==
  \/ \E l \in FileLines : NextOfFile(l) /\ TypeLine(l)
  \/ \E l \in FileLines : NextOfFile(l) /\ FrequencyLine(l)
  \/ \E l \in FileLines : NextOfFile(l) /\ NoTypeLine(l)
  \/ \E l \in FileLines : NextOfFile(l) /\ OtherFrequencyLine(l)
  \/ \E l \in FileLines : NextOfFile(l) /\ DailyLine(l)
  \/ EndOfFile /\ Close

SpecFile == InitFile /\ [][NextFile]_vars /\ WF_vars(NextFile)

(***************************************************************************)
(* trim_from_end on its own: the list passed in is trimmed in place, once  *)
(* and then again.                                                         *)
(***************************************************************************)
TrimTokens == {Sentinel, <<"1","0">>, <<"2","0">>, <<"-","8","8","8","8","S">>}

TrimInputs == UNION {[1..m -> TrimTokens] : m \in 0..MaxTrimLen}

InitTrim ==
  /\ InitParse
  /\ arg \in TrimInputs
  /\ array = arg
  /\ calls = 0
  /\ file = <<>>

TrimCall ==
  /\ calls < MaxCalls
  /\ array' = trim_from_end(array, Sentinel)
  /\ calls' = calls + 1
  /\ UNCHANGED arg
  /\ UNCHANGED parseVars
  /\ UNCHANGED file

NextTrim == TrimCall

SpecTrim == InitTrim /\ [][NextTrim]_vars

(***************************************************************************)
(* Properties.  A step that reads a line has n' = n + 1 and line' the line *)
(* read; the unprimed variables are the state the line is processed in.    *)
(***************************************************************************)
ReadsLine == n' = n + 1

FrequencyHeader(l) == ~MetaMatch(l) /\ ~TypeMatch(l) /\ FrequencyMatch(l)

FrequencyError == "Exception: new frequency not in any normals type"

\* C1: a frequency-header line processed while no category header has been
\* processed (normals has no category yet) aborts the parse at that line with
\* the frequency-outside-any-type exception, leaving meta and normals as they
\* were; once the parse has aborted, no further step changes meta, normals or
\* the parse context.
C1_FrequencyWithoutCategory ==
  /\ [][(ReadsLine /\ FrequencyHeader(line') /\ DOMAIN normals = {})
          => /\ status' = "error"
             /\ err' = FrequencyError
             /\ meta' = meta
             /\ normals' = normals]_vars
  /\ [][status = "error"
          => UNCHANGED <<meta, normals, type, frequency, variable, line, n, status, err>>]_vars

C1_Witness ==
  /\ status = "error"
  /\ err = FrequencyError
  /\ line = DailyLineIn
  /\ normals = EmptyDict
  /\ DOMAIN meta # {}
  /\ n >= 3

(***************************************************************************)
(* What a row is expected to store, stated without trim_from_end and       *)
(* month_index.                                                            *)
(***************************************************************************)
\* the length of the maximal run of sentinel tokens at the end of tokens
TrailingRun(tokens) ==
  CHOOSE k \in 0..Len(tokens) :
    /\ \A i \in (Len(tokens) - k + 1)..Len(tokens) : tokens[i] = Sentinel
    /\ k = Len(tokens) \/ tokens[Len(tokens) - k] # Sentinel

KeptTokens(tokens) == SubSeq(tokens, 1, Len(tokens) - TrailingRun(tokens))

StoredValues(tokens) ==
  [i \in 1..Len(KeptTokens(tokens)) |-> int(re_sub_flag(KeptTokens(tokens)[i]))]

CalendarIndex(tok) ==
  CASE tok = <<"J","A","N">> -> 0 [] tok = <<"F","E","B">> -> 1
    [] tok = <<"M","A","R">> -> 2 [] tok = <<"A","P","R">> -> 3
    [] tok = <<"M","A","Y">> -> 4 [] tok = <<"J","U","N">> -> 5
    [] tok = <<"J","U","L">> -> 6 [] tok = <<"A","U","G">> -> 7
    [] tok = <<"S","E","P">> -> 8 [] tok = <<"O","C","T">> -> 9
    [] tok = <<"N","O","V">> -> 10 [] tok = <<"D","E","C">> -> 11

\* a data row is read under an active category and frequency f whose map exists
DataStep(f) ==
  /\ ReadsLine
  /\ DataLine(line')
  /\ type # None
  /\ frequency = f
  /\ f \in DOMAIN normals[type]

\* a 33-token row whose second token is a month abbreviation, under Daily
AnnouncementStep ==
  /\ DataStep(Daily)
  /\ Len(line') = AnnounceColumns
  /\ InMonths(line'[2])

\* a 32-token row whose first token is a month abbreviation, under Daily
MonthRowStep ==
  /\ DataStep(Daily)
  /\ Len(line') = MonthColumns
  /\ InMonths(line'[1])

\* normals with the row's variable registered with 12 empty slots, if absent
RegisteredOnly ==
  IF line'[1] \in DOMAIN normals[type][Daily]
  THEN normals
  ELSE [normals EXCEPT ![type][Daily] = Put(@, line'[1], [i \in 1..12 |-> <<>>])]

\* C2 as claimed: a 33-token Daily row whose second token is a month only sets
\* the current variable and registers 12 empty slots for it if absent; none of
\* the row's values is stored.
C2_AnnouncementOnlyRegisters ==
  [][(AnnouncementStep /\ status' = "running")
       => /\ variable' = line'[1]
          /\ normals' = RegisteredOnly]_vars

\* C2 amended: a 33-token Daily row whose second token is a month sets the
\* current variable to the first token, registers 12 empty slots for it if
\* absent, and stores the row's own 31 values (trailing sentinels trimmed,
\* flags stripped) in the slot of its month.  So when a month-data row for
\* month m follows the announcement row of a new variable, the slot of the
\* announcement's month holds the announcement's values unless m is that
\* month, slot m holds the month row's values and the other slots are empty.
C2_AnnouncementStoresItsMonth ==
  /\ [][(AnnouncementStep /\ status' = "running")
          => /\ variable' = line'[1]
             /\ normals' = [RegisteredOnly EXCEPT
                              ![type][Daily][line'[1]][CalendarIndex(line'[2]) + 1] =
                                 StoredValues(SubSeq(line', 3, Len(line')))]]_vars
  /\ [][(/\ MonthRowStep
         /\ status' = "running"
         /\ Len(line) = AnnounceColumns
         /\ InMonths(line[2])
         /\ variable = line[1]
         /\ variable \in DOMAIN normals[type][Daily]
         /\ normals[type][Daily][variable] =
              [[i \in 1..12 |-> <<>>] EXCEPT
                 ![CalendarIndex(line[2]) + 1] = StoredValues(SubSeq(line, 3, Len(line)))])
          => normals'[type][Daily][variable] =
               [[i \in 1..12 |-> <<>>] EXCEPT
                  ![CalendarIndex(line[2]) + 1] = StoredValues(SubSeq(line, 3, Len(line))),
                  ![CalendarIndex(line'[1]) + 1] = StoredValues(Tail(line'))]]_vars

C2_Witness ==
  /\ status = "running"
  /\ line = FebRowIn
  /\ type = TempType
  /\ frequency = Daily
  /\ variable = DlyTmax
  /\ TempType \in DOMAIN normals
  /\ Daily \in DOMAIN normals[TempType]
  /\ DlyTmax \in DOMAIN normals[TempType][Daily]
  /\ normals[TempType][Daily][DlyTmax] =
       [[i \in 1..12 |-> <<>>] EXCEPT
          ![1] = [i \in 1..31 |-> 630 + i],
          ![2] = [i \in 1..29 |-> IF i = 2 THEN -8888 ELSE 670 + i]]

\* a 13-token row under Monthly
MonthlyRowStep ==
  /\ DataStep(Monthly)
  /\ Len(line') = MonthlyColumns

MonthlyMaps == {t \in DOMAIN normals : Monthly \in DOMAIN normals[t]}

DailyMaps == {t \in DOMAIN normals : Daily \in DOMAIN normals[t]}

IsIntegers(s) == \A i \in 1..Len(s) : s[i] \in Int

\* C3 as claimed: every variable stored under Monthly maps to exactly 12
\* integers, the sentinel not being trimmed from monthly rows.
C3_MonthlyAlwaysTwelve ==
  \A t \in MonthlyMaps : \A v \in DOMAIN normals[t][Monthly] :
    /\ Len(normals[t][Monthly][v]) = 12
    /\ IsIntegers(normals[t][Monthly][v])

\* C3 amended: every variable stored under Monthly maps to at most 12 integers,
\* the flag-stripped values of the row's 12 value tokens in token order with
\* the trailing run of -8888 tokens removed: a 13-token monthly row ending in k
\* sentinels stores 12 - k values, 12 exactly when its last token is no sentinel.
C3_MonthlyTrimmedRow ==
  /\ [](\A t \in MonthlyMaps : \A v \in DOMAIN normals[t][Monthly] :
          /\ Len(normals[t][Monthly][v]) <= 12
          /\ IsIntegers(normals[t][Monthly][v]))
  /\ [][(MonthlyRowStep /\ status' = "running")
          => /\ line'[1] \in DOMAIN normals'[type][Monthly]
             /\ Len(normals'[type][Monthly][line'[1]]) = 12 - TrailingRun(Tail(line'))
             /\ \A i \in 1..(12 - TrailingRun(Tail(line'))) :
                  normals'[type][Monthly][line'[1]][i] = int(re_sub_flag(line'[i + 1]))
             /\ (Len(normals'[type][Monthly][line'[1]]) = 12) <=> (line'[13] # Sentinel)]_vars

C3_Witness ==
  /\ status = "running"
  /\ line = MonthlySentinelRowIn
  /\ TempType \in MonthlyMaps
  /\ MlyTmax \in DOMAIN normals[TempType][Monthly]
  /\ normals[TempType][Monthly][MlyTmax] =
       [i \in 1..10 |-> IF i = 3 THEN -8888 ELSE 500 + i]

\* the row of a reading step is a Daily row (33 or 32 columns) of month j
DailyRowOfMonth(j) ==
  /\ ReadsLine
  /\ DataLine(line')
  /\ frequency = Daily
  /\ \/ Len(line') = AnnounceColumns /\ line'[2] = months[j]
     \/ Len(line') = MonthColumns /\ line'[1] = months[j]

\* C4: every variable stored under Daily maps to exactly 12 slots, each slot
\* empty or at most 31 integers; the slots of a variable registered by a step
\* are empty except the slot of the registering row's month; and a slot takes
\* a new non-empty content only in a step that processes a row of its month.
C4_DailySlots ==
  /\ [](\A t \in DailyMaps : \A v \in DOMAIN normals[t][Daily] :
          /\ DOMAIN normals[t][Daily][v] = 1..12
          /\ \A j \in 1..12 : /\ Len(normals[t][Daily][v][j]) <= 31
                              /\ IsIntegers(normals[t][Daily][v][j]))
  /\ [][\A t \in DOMAIN normals' : Daily \in DOMAIN normals'[t] =>
          \A v \in DOMAIN normals'[t][Daily] : \A j \in 1..12 :
            (/\ normals'[t][Daily][v][j] # <<>>
             /\ \/ t \notin DailyMaps
                \/ v \notin DOMAIN normals[t][Daily]
                \/ normals[t][Daily][v][j] # normals'[t][Daily][v][j])
              => DailyRowOfMonth(j)]_vars

C4_Witness ==
  /\ status = "running"
  /\ line = AnnounceFebIn
  /\ TempType \in DailyMaps
  /\ DOMAIN normals[TempType][Daily] = {DlyTmax, DlyTmin}
  /\ normals[TempType][Daily][DlyTmin] =
       [[i \in 1..12 |-> <<>>] EXCEPT ![2] = [i \in 1..28 |-> 400 + i]]
  /\ Len(normals[TempType][Daily][DlyTmax][1]) = 31

\* C5: under Daily with an active category, a 32-token row whose first token
\* is a month abbreviation, read while the current variable is unset or is no
\* variable of the active category's Daily map, aborts the parse with an
\* exception and leaves normals as it was.
C5_MonthRowWithoutVariable ==
  [][(/\ ReadsLine
      /\ DataLine(line')
      /\ type # None
      /\ frequency = Daily
      /\ Len(line') = MonthColumns
      /\ InMonths(line'[1])
      /\ \/ variable = None
         \/ Daily \notin DOMAIN normals[type]
         \/ variable \notin DOMAIN normals[type][Daily])
       => /\ status' = "error"
          /\ err' \in {"KeyError", "ValueError"}
          /\ normals' = normals]_vars

C5_Witness ==
  /\ status = "error"
  /\ err = "KeyError"
  /\ line = FebRowIn
  /\ variable = None
  /\ type = TempType
  /\ frequency = Daily
  /\ normals = (TempType :> (Daily :> EmptyDict))

\* a 32-token row under Daily whose first token is no month abbreviation
NoMonthStep ==
  /\ DataStep(Daily)
  /\ Len(line') = MonthColumns
  /\ ~InMonths(line'[1])

\* C6 as claimed: under Daily with an active category, a 32-token data row
\* whose first token is none of the 12 month abbreviations aborts the parse
\* with the unknown-month exception.
C6_NoMonthRowRaises ==
  [][NoMonthStep => status' = "error" /\ err' = "Exception: unknown month"]_vars

\* C6 amended: such a row is silently ignored: no exception is raised and
\* meta, normals and the parse context stay as they were; the unknown-month
\* exception of line 124 is never raised.
C6_NoMonthRowIgnored ==
  /\ [][NoMonthStep
          => /\ status' = "running"
             /\ err' = "none"
             /\ UNCHANGED <<meta, normals, type, frequency, variable>>]_vars
  /\ [](err # "Exception: unknown month")

C6_Witness ==
  /\ status = "running"
  /\ line = NoMonthRowIn
  /\ type = TempType
  /\ frequency = Daily
  /\ variable = DlyTmax
  /\ DlyTmax \in DOMAIN normals[TempType][Daily]

\* C7: a Daily month-data row for month m that is stored (no exception) with
\* current variable v replaces exactly slot index(m), JAN = 0 .. DEC = 11, of
\* v under the current category's Daily map by the row's values, trailing
\* sentinels trimmed and flags stripped, whatever the slot held before; the
\* other 11 slots of v, every other variable, every other map and meta stay
\* as they were.
C7_MonthRowReplacesOneSlot ==
  [][(MonthRowStep /\ status' = "running")
       => /\ variable \in DOMAIN normals[type][Daily]
          /\ normals' = [normals EXCEPT
                           ![type][Daily][variable][CalendarIndex(line'[1]) + 1] =
                              StoredValues(Tail(line'))]
          /\ UNCHANGED <<meta, type, frequency, variable>>]_vars

C7_Witness ==
  /\ status = "running"
  /\ line = JanRowIn
  /\ type = TempType
  /\ frequency = Daily
  /\ variable = DlyTmax
  /\ DOMAIN normals[TempType][Daily] = {DlyTmax, DlyTmin}
  /\ normals[TempType][Daily][DlyTmax] =
       [[i \in 1..12 |-> <<>>] EXCEPT ![1] = [i \in 1..31 |-> 700 + i]]
  /\ normals[TempType][Daily][DlyTmin][2] = [i \in 1..28 |-> 400 + i]
  /\ Monthly \in DOMAIN normals[TempType]

\* a token that is a non-negative integer as printed: digits, no flag, no sign
PlainNumeral(tok) ==
  /\ Len(tok) > 0
  /\ \A i \in 1..Len(tok) : tok[i] \in Digit
  /\ Len(tok) = 1 \/ tok[1] # "0"

\* C8: with an active category whose Monthly map exists and current frequency
\* Monthly, a 13-token row whose last 12 tokens are integers as printed (no
\* flag, no sentinel) is stored without exception: the first token maps to
\* exactly those 12 integers in order, whatever it mapped to before, and
\* nothing else of normals or meta changes.
C8_MonthlyRowStored ==
  [][(MonthlyRowStep /\ \A i \in 2..MonthlyColumns : PlainNumeral(line'[i]))
       => /\ status' = "running"
          /\ line'[1] \in DOMAIN normals'[type][Monthly]
          /\ Len(normals'[type][Monthly][line'[1]]) = 12
          /\ \A i \in 1..12 :
               /\ normals'[type][Monthly][line'[1]][i] >= 0
               /\ Numeral(normals'[type][Monthly][line'[1]][i]) = line'[i + 1]
          /\ normals' = [normals EXCEPT ![type][Monthly] =
                           Put(@, line'[1], normals'[type][Monthly][line'[1]])]
          /\ meta' = meta]_vars

C8_Witness ==
  /\ status = "running"
  /\ line = MonthlyRowIn
  /\ type = TempType
  /\ frequency = Monthly
  /\ DOMAIN normals[TempType] = {Daily, Monthly}
  /\ DOMAIN normals[TempType][Daily] # {}
  /\ normals[TempType][Monthly] = (MlyTmax :> [i \in 1..12 |-> 650 + i])

\* C9: trim_from_end(t, '-8888') is the prefix of t left by removing exactly
\* the maximal run of -8888 tokens at its end: it is empty or ends with a token
\* other than -8888, and every sentinel of t that a non-sentinel token follows
\* is kept in its place.
C9_TrimRemovesTrailingRun ==
  calls >= 1 =>
    /\ array = SubSeq(arg, 1, Len(arg) - TrailingRun(arg))
    /\ array = <<>> \/ array[Len(array)] # Sentinel
    /\ \A i \in 1..Len(arg) :
         (arg[i] = Sentinel /\ \E j \in (i + 1)..Len(arg) : arg[j] # Sentinel)
           => i <= Len(array) /\ array[i] = Sentinel

C9_Witness ==
  /\ calls = 1
  /\ arg = << <<"1","0">>, Sentinel, <<"2","0">>, Sentinel, Sentinel >>
  /\ array = << <<"1","0">>, Sentinel, <<"2","0">> >>

\* C10: trimming is idempotent: a second trim_from_end of an array already
\* trimmed leaves it as the first left it.
C10_TrimIdempotent ==
  [][(calls >= 1 /\ calls' = calls + 1) => array' = array]_vars

C10_Witness ==
  /\ calls = 2
  /\ arg = << Sentinel, <<"2","0">>, Sentinel, Sentinel >>
  /\ array = << Sentinel, <<"2","0">> >>

(***************************************************************************)
(* The values a row stores, against the tokens of the row.                 *)
(***************************************************************************)
\* a row is stored: an announcement row or a month row under Daily, a 13-token
\* row under Monthly, processed without exception
StoringStep ==
  /\ status' = "running"
  /\ AnnouncementStep \/ MonthRowStep \/ MonthlyRowStep

\* the value tokens of the row read
RowTokens ==
  IF frequency = Daily /\ Len(line') = AnnounceColumns
  THEN SubSeq(line', 3, Len(line'))
  ELSE Tail(line')

\* what the row read has left in normals
RowStored ==
  IF frequency = Daily
  THEN normals'[type][Daily][variable']
         [CalendarIndex(IF Len(line') = AnnounceColumns THEN line'[2] ELSE line'[1]) + 1]
  ELSE normals'[type][Monthly][line'[1]]

\* an integer as it is printed
Printed(k) == IF k < 0 THEN <<"-">> \o Numeral(0 - k) ELSE Numeral(k)

\* a token without its trailing uppercase letter, if it has one
WithoutFlag(tok) ==
  IF Len(tok) > 0 /\ tok[Len(tok)] \in Upper THEN SubSeq(tok, 1, Len(tok) - 1) ELSE tok

\* C11: every row that is stored leaves integers, and the i-th integer stored
\* is the one printed in the i-th value token of the row once one trailing
\* uppercase letter, if any, is removed: no scaling, no unit conversion, no
\* reordering.
C11_StoredAsPrinted ==
  [][StoringStep
       => /\ Len(RowStored) <= Len(RowTokens)
          /\ \A i \in 1..Len(RowStored) :
               /\ RowStored[i] \in Int
               /\ Printed(RowStored[i]) = WithoutFlag(RowTokens[i])]_vars

C11_Witness ==
  /\ status = "running"
  /\ line = FlaggedEndRowIn
  /\ type = TempType
  /\ frequency = Daily
  /\ variable = DlyTmax
  /\ normals[TempType][Daily][DlyTmax][3] =
       [i \in 1..31 |-> IF i <= 29 THEN 300 + i ELSE 0 - 8888]

\* a token that is an integer as int() reads it: an optional sign, then digits
IsInteger(tok) ==
  /\ Len(tok) > 0
  /\ LET digits == IF tok[1] \in {"-", "+"} THEN Tail(tok) ELSE tok
     IN /\ Len(digits) > 0
        /\ \A i \in 1..Len(digits) : digits[i] \in Digit

\* a month-data row under Daily or a 13-token row under Monthly is read with
\* an active category
ValueRowStep ==
  /\ ReadsLine
  /\ DataLine(line')
  /\ type # None
  /\ \/ frequency = Daily /\ Len(line') = MonthColumns /\ InMonths(line'[1])
     \/ frequency = Monthly /\ Len(line') = MonthlyColumns

\* some token left by the sentinel trimming is no integer without its flag
HasBadToken(tokens) ==
  \E i \in 1..Len(KeptTokens(tokens)) : ~IsInteger(WithoutFlag(KeptTokens(tokens)[i]))

\* C12: a Daily month-data row or a Monthly row with a token that, after the
\* sentinel trimming and the removal of one trailing uppercase letter, is not
\* an integer aborts the parse with ValueError at that row, and the row stores
\* nothing: normals and meta are as they were before the row.
C12_BadTokenAborts ==
  [][(ValueRowStep /\ HasBadToken(Tail(line')))
       => /\ status' = "error"
          /\ err' = "ValueError"
          /\ normals' = normals
          /\ meta' = meta]_vars

C12_Witness ==
  /\ status = "error"
  /\ err = "ValueError"
  /\ line = MonthlyBadRowIn
  /\ type = TempType
  /\ frequency = Monthly
  /\ DOMAIN normals[TempType][Monthly] = {MlyTmax}
  /\ normals[TempType][Monthly][MlyTmax] =
       [i \in 1..10 |-> IF i = 3 THEN 0 - 8888 ELSE 500 + i]

(***************************************************************************)
(* The order of the four tests of the loop body.                           *)
(***************************************************************************)
OnlyKey == <<"O","n","l","y">>

\* C13: a line is handled by the first of the four tests it passes, metadata,
\* category header, frequency header, data row, and by that one alone.  A line
\* of the metadata shape only updates meta, also when it has the shape of a
\* category header or of a frequency header; a line of the category-header
\* shape that is no metadata only sets the category (and its empty map if
\* new), it neither sets the frequency nor is stored as a row; a frequency
\* header leaves the category and the variable; a data row leaves meta,
\* category and frequency.
C13_FirstShapeWins ==
  /\ [][(ReadsLine /\ MetaMatch(line'))
          => /\ MetaKey(line') \in DOMAIN meta'
             /\ UNCHANGED <<normals, type, frequency, variable, status, err>>]_vars
  /\ [][(ReadsLine /\ ~MetaMatch(line') /\ TypeMatch(line'))
          => /\ type' = TypeGroup(line')
             /\ normals' \in {normals, Put(normals, TypeGroup(line'), EmptyDict)}
             /\ UNCHANGED <<meta, frequency, variable, status, err>>]_vars
  /\ [][(ReadsLine /\ FrequencyHeader(line'))
          => /\ frequency' = FrequencyGroup(line')
             /\ UNCHANGED <<meta, type, variable>>]_vars
  /\ [][(ReadsLine /\ DataLine(line'))
          => UNCHANGED <<meta, type, frequency>>]_vars

C13_Witness ==
  /\ status = "running"
  /\ line = MonthlyNormalsIn
  /\ type = Monthly
  /\ frequency = Daily
  /\ variable = DlyTmax
  /\ DOMAIN normals = {TempType, Monthly}
  /\ normals[Monthly] = EmptyDict
  /\ DOMAIN meta = {OnlyKey}
  /\ meta[OnlyKey] = <<"E","Y"," ","N","o","r","m","a","l","s">>

StNameKey == <<"S","t"," ","N","a","m","e">>

\* C14: a metadata line sets meta[key] to the value of the line, whatever the
\* key held before, keeps every other key, and leaves the category, the
\* frequency, the variable and normals as they were.
C14_MetaLineSetsKey ==
  [][(ReadsLine /\ MetaMatch(line'))
       => /\ DOMAIN meta' = DOMAIN meta \cup {MetaKey(line')}
          /\ meta'[MetaKey(line')] = MetaVal(line')
          /\ \A k \in DOMAIN meta \ {MetaKey(line')} : meta'[k] = meta[k]
          /\ UNCHANGED <<normals, type, frequency, variable>>]_vars

C14_Witness ==
  /\ status = "running"
  /\ line = MetaAgainIn
  /\ DOMAIN meta = {StNameKey, OnlyKey}
  /\ meta[StNameKey] = <<"E","X">>
  /\ meta[OnlyKey] = <<"E","Y"," ","N","o","r","m","a","l","s">>
  /\ type = TempType
  /\ frequency = Daily
  /\ variable = DlyTmax
  /\ DOMAIN normals = {TempType}
  /\ DOMAIN normals[TempType][Daily] = {DlyTmax}

C16_RowOutsideSectionIgnored ==
  [][(ReadsLine /\ DataLine(line') /\ (type = None \/ frequency = None))
       => /\ status' = "running"
          /\ err' = "none"
          /\ UNCHANGED <<meta, normals, type, frequency, variable>>]_vars

C16_Witness ==
  /\ status = "running"
  /\ line = MonthlyRowIn
  /\ n >= 3
  /\ type = TempType
  /\ frequency = None
  /\ variable = None
  /\ normals = Put(EmptyDict, TempType, EmptyDict)

\* C17: the sentinel trimming compares the tokens of the row as they are
\* written, before any flag is removed.  What a stored row loses is its
\* maximal trailing run of tokens equal to '-8888'; a token '-8888S' is not in
\* that run, so a row that ends in '-8888S' loses nothing, the '-8888' tokens
\* before it are kept, and every '-8888S' kept is stored as -8888.
C17_FlaggedSentinelKept ==
  [][StoringStep
       => /\ Len(RowStored) = Len(RowTokens) - TrailingRun(RowTokens)
          /\ RowTokens[Len(RowTokens)] = FlaggedSentinel
               => Len(RowStored) = Len(RowTokens)
          /\ \A i \in 1..Len(RowStored) :
               RowTokens[i] \in {Sentinel, FlaggedSentinel} => RowStored[i] = 0 - 8888]_vars

C17_Witness ==
  /\ status = "running"
  /\ line = FlaggedEndRowIn
  /\ line[MonthColumns] = <<"-","8","8","8","8","S">>
  /\ line[MonthColumns - 1] = <<"-","8","8","8","8">>
  /\ type = TempType
  /\ frequency = Daily
  /\ Len(normals[TempType][Daily][variable][3]) = 31
  /\ normals[TempType][Daily][variable][3][31] = 0 - 8888
  /\ normals[TempType][Daily][variable][3][30] = 0 - 8888

(***************************************************************************)
(* The parse context against normals.                                      *)
(***************************************************************************)
\* C18: whenever a category and a frequency are both current, normals holds a
\* variable map for that frequency under that category, also right after a
\* category header that changes the category while the frequency of the
\* previous category is still current.
C18_FrequencyMapExists ==
  (type # None /\ frequency # None) => frequency \in DOMAIN normals[type]

\* a category header or a frequency header
HeaderLine(l) == ~MetaMatch(l) /\ (TypeMatch(l) \/ FrequencyMatch(l))

\* C19: a Daily month-data row writes only into a variable named by an
\* announcement row read after the most recent category or frequency header.
\* Stated for the row that directly follows a header, where no announcement
\* row can have been read since: such a month-data row writes nothing.
C19_NoWriteToStaleVariable ==
  [][(MonthRowStep /\ HeaderLine(line)) => normals' = normals]_vars

(***************************************************************************)
(* Termination of the parse of a file.                                     *)
(***************************************************************************)
Terminated == status \in {"done", "error"}

\* C20: the parse of every file terminates.  The lines are read one at a
\* time and in the order of the file, the k-th line read being line k of the
\* file, so no line is read twice and none is read again later; the parse
\* ends either done, with every line of the file read, or in an exception at
\* the line read last, the lines after it never being read; once it has ended
\* nothing changes any more.
C20_ParseTerminates ==
  /\ <>Terminated
  /\ [][n' \in {n, n + 1}]_vars
  /\ [][ReadsLine => (n < Len(file) /\ line' = file[n + 1])]_vars
  /\ [][status = "running"]_vars
  /\ [](status = "done" => n = Len(file))
  /\ [](status = "error" => (n >= 1 /\ n <= Len(file) /\ line = file[n]))

C20_Witness ==
  /\ status = "error"
  /\ err = "ValueError"
  /\ Len(file) = 4
  /\ n = 3
  /\ line = BadRowIn
  /\ file[4] = AnnounceJanIn

====
